---- MODULE Spec2Model ----
(***************************************************************************)
(* Model of the Kademlia protocol engine of protocol.py: the Server with   *)
(* its RPC handlers, the bootstrap/join of start, the query round _query   *)
(* with its per-node tasks, and the operations set, get and lookup_node.   *)
(*                                                                         *)
(* A Node is modelled by its identifier (Node equality is by identifier).  *)
(* The remote peers run the same handlers as this server; what a peer      *)
(* knows (its routing table, the value it holds under the looked-up key,   *)
(* whether it is reachable) shows in its answers; a peer repeats its answer *)
(* until the network starts to change (Churn).                             *)
(***************************************************************************)
EXTENDS Integers, Sequences, FiniteSets, TLC

\* ---- bounds of the model ----
NumPeers == 3
MaxRounds == 3
MaxKnown == 2

\* ---- configuration (config.py) ----
ksize == 2
asize == 1
this_node == 0

Peers == 1..NumPeers
Targets == {0, 6}
NoValue == "None"
NotFound == "not found"
\* the values peers hold: any bytes, b'not found' among them
Values == {"v1", NotFound}

\* ---- identity and distance ----
RECURSIVE Xor(_, _)
Xor(a, b) ==
  IF a = 0 /\ b = 0 THEN 0
  ELSE (((a % 2) + (b % 2)) % 2) + (2 * Xor(a \div 2, b \div 2))

Distance(n, id) == Xor(n, id)

\* list.sort(key=lambda n: n.id ^ id): a stable sort by distance; the item at
\* position i moves behind the items that are nearer, and behind the equally
\* near items that stood before it
SortedPosition(s, id, i) ==
  1 + Cardinality({j \in 1..Len(s) :
        \/ Distance(s[j], id) < Distance(s[i], id)
        \/ (Distance(s[j], id) = Distance(s[i], id) /\ j < i)})

SortByDistance(s, id) ==
  [k \in 1..Len(s) |-> s[CHOOSE i \in 1..Len(s) : SortedPosition(s, id, i) = k]]

\* nodes[:n]
Truncate(s, n) == IF Len(s) <= n THEN s ELSE SubSeq(s, 1, n)

\* list.remove(x): drops the first occurrence
Remove(s, x) ==
  LET first == CHOOSE i \in 1..Len(s) : s[i] = x /\ \A j \in 1..(i - 1) : s[j] # x
  IN SubSeq(s, 1, first - 1) \o SubSeq(s, first + 1, Len(s))

Range(s) == {s[i] : i \in 1..Len(s)}

IsSortedByDistance(s, id) ==
  \A i \in 1..Len(s) : \A j \in 1..Len(s) :
    i < j => Distance(s[i], id) <= Distance(s[j], id)

\* ---- routing table (routing.py) ----
\* RoutingTable.get_nodes_nearby(id): the table's nodes nearest to id, at most ksize
NearestFirst(table, id) ==
  [k \in 1..Cardinality(table) |->
     CHOOSE n \in table : Cardinality({m \in table : Distance(m, id) < Distance(n, id)}) = k - 1]

get_nodes_nearby(table, id) == Truncate(NearestFirst(table, id), ksize)

\* RoutingTable.update(node)
update(table, node) == table \cup {node}

\* get_nodes_nearby called with something that is not an ID (set passes the
\* builtin `id`): it raises, or it answers with nodes of the table that the
\* key has no part in choosing
NearbyOfNonID(table) ==
  {[raised |-> TRUE, nodes |-> <<>>]} \cup
  {[raised |-> FALSE, nodes |-> get_nodes_nearby(table, t)] : t \in Targets}

\* ---- RPC results ----
NetworkError == [kind |-> "NetworkError", nodes |-> <<>>, value |-> NoValue]
NodeList(ns) == [kind |-> "nodes", nodes |-> ns, value |-> NoValue]
Bytes(v) == [kind |-> "bytes", nodes |-> <<>>, value |-> v]
Pending == [kind |-> "pending", nodes |-> <<>>, value |-> NoValue]

\* handlers find_node and find_value, as registered by start
find_node(table, id) == NodeList(get_nodes_nearby(table, id))

find_value_IgnoresStore(store, table, id) == find_node(table, id)
find_value(store, table, id) ==
  IF store # NoValue THEN Bytes(store) ELSE find_node(table, id)

\* ---- the peers ----
\* A peer runs the same handlers on its own routing table and storage. The
\* answers a reachable or unreachable peer p can give to rpc_func(id):
Answers(p, rpc_func, id) ==
  {NetworkError} \cup
  {IF rpc_func = "find_value" THEN find_value(v, t, id) ELSE find_node(t, id) :
      t \in SUBSET (Peers \ {p}), v \in Values \cup {NoValue}}

Unknown == [kind |-> "unknown", nodes |-> <<>>, value |-> NoValue]

VARIABLES
  routing_table,   \* Server.routing_table
  storage,         \* Server.storage
  startState,      \* where start is: "init", "joining", "returned", "raised"
  known_nodes,     \* start's argument
  startRes,        \* the results gather collects in start
  op,              \* the lookup operation: "none", "get", "lookup_node"
  status,          \* "idle", "running", "returned"
  target,          \* the key / id looked up
  nodes,           \* the loop's `nodes` of get / lookup_node
  cand,            \* _query's `nodes`: the list the tasks of a round mutate
  task,            \* the tasks of the round: node and position
  sem,             \* the permits left in the Semaphore
  gather,          \* the future of gather in _query
  res,             \* what the last finished round returned
  result,          \* what get / lookup_node returned
  rounds,          \* rounds started, counted up to MaxRounds
  answer,          \* the answer of each peer contacted so far
  static,          \* the network has not changed since the first contact
  setState,        \* where set is: "none", "raised", "called", "returned", "failed"
  setKey,          \* set's key
  setNodes,        \* the nodes set invoked store on
  setRes,          \* the outcome of each store call of set
  callers,         \* history: the nodes whose inbound RPC was dispatched
  written,         \* history: per key, the value of the last store request
  last             \* history: the last inbound RPC served and its reply

vars == <<routing_table, storage, startState, known_nodes, startRes, op, status,
          target, nodes, cand, task, sem, gather, res, result, rounds, answer,
          static, setState, setKey, setNodes, setRes, callers, written, last>>

startVars == <<startState, known_nodes, startRes>>
lookupVars == <<op, status, target, nodes, cand, task, sem, gather, res, result, rounds>>
setVars == <<setState, setKey, setNodes, setRes>>
inboundVars == <<callers, written, last>>

NoResult == [kind |-> "none", nodes |-> <<>>, value |-> NoValue]

\* what the handlers ping and store return: 'pong' and None
Pong == [kind |-> "pong", nodes |-> <<>>, value |-> NoValue]
NoID == 0 - 1
Served(rpc, id, reply) == [rpc |-> rpc, id |-> id, reply |-> reply]

Init ==
  /\ routing_table = {}
  /\ storage = [k \in Targets |-> NoValue]
  /\ startState = "init"
  /\ known_nodes = [given |-> FALSE, list |-> <<>>]
  /\ startRes = <<>>
  /\ op = "none"
  /\ status = "idle"
  /\ target = 0
  /\ nodes = <<>>
  /\ cand = <<>>
  /\ task = <<>>
  /\ sem = 0
  /\ gather = Pending
  /\ res = <<>>
  /\ result = NoResult
  /\ rounds = 0
  /\ answer = [p \in Peers |-> Unknown]
  /\ static = TRUE
  /\ setState = "none"
  /\ setKey = 0
  /\ setNodes = <<>>
  /\ setRes = <<>>
  /\ callers = {}
  /\ written = [k \in Targets |-> NoValue]
  /\ last = Served("none", NoID, NoResult)

\* ---- start: serve, then join the network ----
KnownArgs ==
  {[given |-> FALSE, list |-> <<>>], [given |-> TRUE, list |-> <<>>]} \cup
  {[given |-> TRUE, list |-> <<p>>] : p \in Peers} \cup
  {[given |-> TRUE, list |-> <<pq[1], pq[2]>>] : pq \in {x \in Peers \X Peers : x[1] # x[2]}}

\* one pass of the body of `for idx, new_nodes in res` on the result r of one
\* known node: r is unpacked into two names, then known_nodes[idx] is read
JoinIteration(r, known, table) ==
  IF r.kind = "NetworkError"
    THEN [raised |-> TRUE, exc |-> "TypeError", table |-> table]   \* an exception is not iterable
  ELSE IF Len(r.nodes) # 2
    THEN [raised |-> TRUE, exc |-> "ValueError", table |-> table]  \* not two items to unpack
  ELSE [raised |-> TRUE, exc |-> "TypeError", table |-> table]     \* idx is a Node, not a list index

JoinLoop_AlwaysRaises(rs, known, table) == [state |-> "raised", table |-> table]
RECURSIVE JoinLoop(_, _, _)
JoinLoop(rs, known, table) ==
  IF rs = <<>> THEN [state |-> "returned", table |-> table]
  ELSE LET it == JoinIteration(Head(rs), known, table) IN
       IF it.raised THEN [state |-> "raised", table |-> it.table]
       ELSE JoinLoop(Tail(rs), known, it.table)

\* the calls start issues: one find_node(this_node) per known node
JoinCalls(kn) == [i \in 1..Len(kn.list) |-> Pending]

start(kn) ==
  /\ startState = "init"
  /\ Len(kn.list) <= MaxKnown
  /\ known_nodes' = kn
  /\ IF ~kn.given
       THEN /\ startState' = "returned"
            /\ startRes' = <<>>
       ELSE /\ startState' = "joining"
            /\ startRes' = JoinCalls(kn)
  /\ UNCHANGED <<routing_table, storage, answer, static>>
  /\ UNCHANGED lookupVars
  /\ UNCHANGED setVars
  /\ UNCHANGED inboundVars

\* the answer a of peer p: while the network is static, the one p gave before
Contact(p, a) ==
  /\ answer[p].kind # "unknown" => a = answer[p]
  /\ answer' = IF static THEN [answer EXCEPT ![p] = a] ELSE answer

\* a join call settles: node.rpc.find_node(this_node) answers or fails
JoinSettle(i) ==
  /\ startState = "joining"
  /\ i \in 1..Len(startRes)
  /\ i <= Len(known_nodes.list)
  /\ startRes[i].kind = "pending"
  /\ \E a \in Answers(known_nodes.list[i], "find_node", this_node) :
       /\ Contact(known_nodes.list[i], a)
       /\ startRes' = [startRes EXCEPT ![i] = a]
  /\ UNCHANGED <<routing_table, storage, startState, known_nodes, static>>
  /\ UNCHANGED lookupVars
  /\ UNCHANGED setVars
  /\ UNCHANGED inboundVars

\* gather(..., return_exceptions=True) is done: the loop over the results runs
JoinFinish ==
  /\ startState = "joining"
  /\ \A i \in 1..Len(known_nodes.list) : startRes[i].kind # "pending"
  /\ LET out == JoinLoop(SubSeq(startRes, 1, Len(known_nodes.list)), known_nodes.list, routing_table) IN
       /\ startState' = out.state
       /\ routing_table' = out.table
  /\ UNCHANGED <<storage, known_nodes, startRes, answer, static>>
  /\ UNCHANGED lookupVars
  /\ UNCHANGED setVars
  /\ UNCHANGED inboundVars

\* ---- inbound RPCs ----
\* (the model runs one operation at a time: inbound RPCs are taken while no
\* lookup and no set is under way)

\* s.on_rpc = update: what the transport calls with the caller's node
on_rpc_Nothing(table, node) == table
on_rpc(table, node) == update(table, node)

\* store: self.storage[key] = value
StoreValue_IfAbsent(store, key, value) ==
  IF store[key] = NoValue THEN [store EXCEPT ![key] = value] ELSE store
StoreValue(store, key, value) == [store EXCEPT ![key] = value]

\* the transport dispatches an inbound call of `caller`: the callback runs
Dispatch(caller) ==
  /\ startState # "init"
  /\ status = "idle"
  /\ setState = "none"
  /\ routing_table' = on_rpc(routing_table, caller)
  /\ callers' = callers \cup {caller}
  /\ UNCHANGED <<answer, static>>
  /\ UNCHANGED startVars
  /\ UNCHANGED lookupVars
  /\ UNCHANGED setVars

rpc_ping(caller) ==
  /\ Dispatch(caller)
  /\ last' = Served("ping", NoID, Pong)
  /\ UNCHANGED <<storage, written>>

rpc_store(caller, key, value) ==
  /\ Dispatch(caller)
  /\ storage' = StoreValue(storage, key, value)
  /\ written' = [written EXCEPT ![key] = value]
  /\ last' = Served("store", key, NoResult)

\* the handler reads the table before or after the callback has run
rpc_find_node(caller, id) ==
  /\ Dispatch(caller)
  /\ \E t \in {routing_table, routing_table'} :
       last' = Served("find_node", id, find_node(t, id))
  /\ UNCHANGED <<storage, written>>

rpc_find_value(caller, id) ==
  /\ Dispatch(caller)
  /\ \E t \in {routing_table, routing_table'} :
       last' = Served("find_value", id, find_value(storage[id], t, id))
  /\ UNCHANGED <<storage, written>>

\* ---- set ----
\* await asyncio.gather(*stores): the first store call that fails raises out
\* of gather and of set; gather returns once every call has succeeded
GatherStores(rs) ==
  IF \E i \in 1..Len(rs) : rs[i] = "NetworkError" THEN "failed"
  ELSE IF \A i \in 1..Len(rs) : rs[i] = "stored" THEN "returned"
  ELSE "called"

set(key, value) ==
  /\ setState = "none"
  /\ startState \in {"returned", "raised"}
  /\ \E o \in NearbyOfNonID(routing_table) :
       /\ setNodes' = o.nodes
       /\ setRes' = [i \in 1..Len(o.nodes) |-> "pending"]
       /\ setState' = IF o.raised THEN "raised" ELSE GatherStores(setRes')
  /\ setKey' = key
  /\ UNCHANGED <<routing_table, storage, answer, static>>
  /\ UNCHANGED startVars
  /\ UNCHANGED lookupVars
  /\ UNCHANGED inboundVars

\* the store call to the i-th node settles: node.rpc.store(key, value) succeeds
\* or fails with NetworkError (a peer known to be unreachable fails)
SetSettle(i) ==
  /\ setState \in {"called", "failed"}
  /\ i \in 1..Len(setRes)
  /\ setRes[i] = "pending"
  /\ \E r \in {"stored", "NetworkError"} :
       /\ answer[setNodes[i]].kind = "NetworkError" => r = "NetworkError"
       /\ answer[setNodes[i]].kind = "nodes" => r = "stored"
       /\ setRes' = [setRes EXCEPT ![i] = r]
  /\ setState' = GatherStores(setRes')
  /\ UNCHANGED <<routing_table, storage, answer, static, setKey, setNodes>>
  /\ UNCHANGED startVars
  /\ UNCHANGED lookupVars
  /\ UNCHANGED inboundVars

\* ---- the query round ----
\* fs: one task per node of the list as it is when gather(*fs) unpacks it
Tasks(ns) ==
  [i \in 1..Len(ns) |-> [node |-> ns[i], pc |-> "wait", val |-> NoValue, ans |-> Pending]]

\* what the generator fs still yields after gather(*fs) has consumed it
RestOfGenerator(ts) == {}

\* Semaphore: a permit can be taken
CanAcquire_Always(s) == TRUE
CanAcquire(s) == s > 0

\* leaving the with block gives the permit back, however the call ended
Release_NotOnError(s, kind) == IF kind = "NetworkError" THEN s ELSE s + 1
Release(s, kind) == s + 1

\* nodes.copy(): the list of the loop in get / lookup_node is another object
\* than the list the tasks mutate (mutated: that list after a task's change)
LoopList_Aliased(ns, mutated) == mutated
LoopList(ns, mutated) == ns

\* except NetworkError: nodes.remove(node)
DropFailed_Nothing(ns, node) == ns
DropFailed(ns, node) == Remove(ns, node)

\* await asyncio.gather(*fs) resumes without exception: every task is done
GatherDone_AnyTask(ts) == \E i \in 1..Len(ts) : ts[i].pc = "done"
GatherDone(ts) == \A i \in 1..Len(ts) : ts[i].pc = "done"

\* the sorted, truncated list _query returns
QueryResult_Unsorted(ns, id) == Truncate(ns, ksize)
QueryResult(ns, id) == Truncate(SortByDistance(ns, id), ksize)

rpc_func == IF op = "get" THEN "find_value" ELSE "find_node"

\* with (await sem): the task takes a permit and issues its call
Acquire(i) ==
  /\ i \in 1..Len(task)
  /\ task[i].pc = "wait"
  /\ CanAcquire(sem)
  /\ sem' = sem - 1
  /\ task' = [task EXCEPT ![i].pc = "call"]
  /\ UNCHANGED <<routing_table, storage, op, status, target, nodes, cand, gather,
                 res, result, rounds, answer, static>>
  /\ UNCHANGED startVars
  /\ UNCHANGED setVars
  /\ UNCHANGED inboundVars

\* the call of task i settles; the permit is released and the task finishes
Settle(i) ==
  /\ i \in 1..Len(task)
  /\ task[i].pc = "call"
  /\ \E r \in Answers(task[i].node, rpc_func, target) :
       /\ Contact(task[i].node, r)
       /\ sem' = Release(sem, r.kind)
       /\ IF r.kind = "NetworkError"
              THEN /\ cand' = DropFailed(cand, task[i].node)
                   /\ task' = [task EXCEPT ![i].pc = "done", ![i].ans = r]
                   /\ gather' = gather
            ELSE IF r.kind = "bytes"
              THEN /\ cand' = cand
                   /\ task' = [task EXCEPT ![i].pc = "raised", ![i].val = r.value,
                                           ![i].ans = r]
                   /\ gather' = IF gather.kind = "pending" THEN r ELSE gather
            ELSE /\ cand' = cand \o r.nodes
                 /\ task' = [task EXCEPT ![i].pc = "done", ![i].ans = r]
                 /\ gather' = gather
  /\ nodes' = LoopList(nodes, cand')
  /\ UNCHANGED <<routing_table, storage, op, status, target, res, result,
                 rounds, static>>
  /\ UNCHANGED startVars
  /\ UNCHANGED setVars
  /\ UNCHANGED inboundVars

\* _query(nodes.copy(), ...) up to `await gather`
BeginRound(ns) ==
  /\ cand' = ns
  /\ task' = Tasks(ns)
  /\ gather' = Pending
  /\ rounds' = IF rounds < MaxRounds THEN rounds + 1 ELSE rounds

\* what get / lookup_node return when the search has converged
Converged(o, ns) == IF o = "get" THEN Bytes(NotFound) ELSE NodeList(ns)

\* what get returns on ValueFound: exc.args[0]
FoundValue_NotFound(exc) == Bytes(NotFound)
FoundValue(exc) == Bytes(exc.value)

get(key) ==
  /\ status = "idle"
  /\ op' = "get"
  /\ status' = "running"
  /\ target' = key
  /\ sem' = asize
  /\ nodes' = get_nodes_nearby(routing_table, key)
  /\ BeginRound(nodes')
  /\ UNCHANGED <<routing_table, storage, res, result, answer, static>>
  /\ UNCHANGED startVars
  /\ UNCHANGED setVars
  /\ UNCHANGED inboundVars

lookup_node(id) ==
  /\ status = "idle"
  /\ op' = "lookup_node"
  /\ status' = "running"
  /\ target' = id
  /\ sem' = asize
  /\ nodes' = get_nodes_nearby(routing_table, id)
  /\ BeginRound(nodes')
  /\ UNCHANGED <<routing_table, storage, res, result, answer, static>>
  /\ UNCHANGED startVars
  /\ UNCHANGED setVars
  /\ UNCHANGED inboundVars

\* gather is done without exception: _query sorts, truncates and returns; the
\* loop of get / lookup_node compares and either stops or runs the next round
QueryReturn ==
  /\ status = "running"
  /\ gather.kind = "pending"
  /\ GatherDone(task)
  /\ res' = QueryResult(cand, target)
  /\ IF res' = nodes
       THEN /\ status' = "returned"
            /\ result' = Converged(op, nodes)
            /\ cand' = SortByDistance(cand, target)
            /\ UNCHANGED <<nodes, task, gather, rounds>>
       ELSE /\ nodes' = res'
            /\ BeginRound(res')
            /\ UNCHANGED <<status, result>>
  /\ UNCHANGED <<routing_table, storage, op, target, sem, answer, static>>
  /\ UNCHANGED startVars
  /\ UNCHANGED setVars
  /\ UNCHANGED inboundVars

\* gather raised ValueFound: _query cancels what fs still yields and re-raises,
\* get returns the value
QueryRaise ==
  /\ status = "running"
  /\ gather.kind = "bytes"
  /\ task' = [i \in 1..Len(task) |->
                IF i \in RestOfGenerator(task) /\ task[i].pc \in {"wait", "call"}
                  THEN [task[i] EXCEPT !.pc = "cancelled"]
                  ELSE task[i]]
  /\ status' = "returned"
  /\ result' = FoundValue(gather)
  /\ UNCHANGED <<routing_table, storage, op, target, nodes, cand, sem, gather,
                 res, rounds, answer, static>>
  /\ UNCHANGED startVars
  /\ UNCHANGED setVars
  /\ UNCHANGED inboundVars

\* ---- the environment: the network starts to change ----
\* from here on peers restart, learn and forget: a peer may give a different
\* answer every time it is asked
Churn ==
  /\ static
  /\ status = "running"
  /\ static' = FALSE
  /\ answer' = [p \in Peers |-> Unknown]
  /\ UNCHANGED <<routing_table, storage>>
  /\ UNCHANGED startVars
  /\ UNCHANGED lookupVars
  /\ UNCHANGED setVars
  /\ UNCHANGED inboundVars

\* the outbound side of the server: start with its join, and set; inbound
\* pings make peers known (the handlers are served under SpecHandlers)
NextServer ==
  \/ \E kn \in KnownArgs : start(kn)
  \/ \E i \in 1..MaxKnown : JoinSettle(i)
  \/ JoinFinish
  \/ \E c \in Peers : rpc_ping(c)
  \/ \E k \in Targets, v \in Values : set(k, v)
  \/ \E i \in 1..ksize : SetSettle(i)

SpecServer == Init /\ [][NextServer]_vars

\* a node started without known nodes, made known to peers by their inbound
\* RPCs, runs a lookup
NextLookup ==
  \/ \E kn \in {a \in KnownArgs : a.list = <<>>} : start(kn)
  \/ JoinFinish
  \/ \E c \in Peers : rpc_ping(c)
  \/ \E k \in Targets : get(k)
  \/ \E id \in Targets : lookup_node(id)
  \/ \E i \in 1..ksize : Acquire(i)
  \/ \E i \in 1..ksize : Settle(i)
  \/ QueryReturn
  \/ QueryRaise
  \/ Churn

SpecLookup == Init /\ [][NextLookup]_vars

\* the same without Churn, and with the event loop's scheduling: as long as a
\* task can take a permit, a call is in flight or a finished gather waits for
\* _query, one of them goes on (every call settles, every ready task runs)
NextStatic ==
  \/ \E kn \in {a \in KnownArgs : a.list = <<>>} : start(kn)
  \/ JoinFinish
  \/ \E c \in Peers : rpc_ping(c)
  \/ \E k \in Targets : get(k)
  \/ \E id \in Targets : lookup_node(id)
  \/ \E i \in 1..ksize : Acquire(i)
  \/ \E i \in 1..ksize : Settle(i)
  \/ QueryReturn
  \/ QueryRaise

\* the lookups on a network that does not change
SpecStatic == Init /\ [][NextStatic]_vars

LoopStep ==
  \/ \E i \in 1..ksize : Acquire(i)
  \/ \E i \in 1..ksize : Settle(i)
  \/ QueryReturn
  \/ QueryRaise

FairStaticLookup == Init /\ [][NextStatic]_vars /\ WF_vars(LoopStep)

\* the inbound side: a started node serving the four RPCs
NextHandlers ==
  \/ \E kn \in {a \in KnownArgs : a.list = <<>>} : start(kn)
  \/ JoinFinish
  \/ \E c \in Peers : rpc_ping(c)
  \/ \E c \in Peers, k \in Targets, v \in Values : rpc_store(c, k, v)
  \/ \E c \in Peers, id \in Targets : rpc_find_node(c, id)
  \/ \E c \in Peers, id \in Targets : rpc_find_value(c, id)

SpecHandlers == Init /\ [][NextHandlers]_vars

\* ---- properties ----
InFlight == {i \in 1..Len(task) : task[i].pc = "call"}
Waiting == {i \in 1..Len(task) : task[i].pc = "wait"}
Raised == {i \in 1..Len(task) : task[i].pc = "raised"}
StartFinished == startState \in {"returned", "raised"}

\* C1: the candidate set a query round returns is sorted by ascending XOR
\* distance to the target and has at most ksize entries
C1_RoundOutputSortedAndBounded ==
  /\ IsSortedByDistance(res, target)
  /\ Len(res) <= ksize

\* a lookup has converged on a round whose merged list was longer than ksize
C1_Witness ==
  /\ status = "returned"
  /\ gather.kind = "pending"
  /\ Len(cand) > ksize
  /\ Len(res) = ksize
  /\ res[1] # res[2]

\* C2: the calls of a lookup that are in flight at the same time never exceed
\* asize
C2_InFlightWithinBudget == Cardinality(InFlight) <= asize

\* all permits are taken and a task waits for one
C2_Witness ==
  /\ Cardinality(InFlight) = asize
  /\ Waiting # {}

\* C3: once a peer has answered a find_value call of the round with a value,
\* the round ends with value-found, get returns the value of a peer that
\* answered with one, and neither a candidate set is returned for the round nor
\* another round run
C3_ValueFoundEndsGet ==
  /\ [](Raised # {} =>
          /\ op = "get"
          /\ gather.kind = "bytes"
          /\ gather.value \in {task[i].val : i \in Raised}
          /\ status = "returned" =>
               /\ result.kind = "bytes"
               /\ result.value = gather.value
               /\ result.value \in Values)
  /\ [][gather.kind = "bytes" => (res' = res /\ nodes' = nodes /\ rounds' = rounds)]_vars

\* get returned a value in its first round, which queried two peers
C3_Witness ==
  /\ op = "get"
  /\ status = "returned"
  /\ rounds = 1
  /\ Len(task) = 2
  /\ Raised # {}
  /\ result.value \in Values

\* C4: after a round has ended with value-found, no call of the round issues or
\* completes an RPC, removes its peer from or appends to the candidate set
C4_NoStepAfterValueFound ==
  [][(status = "returned" /\ gather.kind = "bytes") => (task' = task /\ cand' = cand)]_vars

\* C5: every get and lookup_node eventually returns, and it returns at the
\* first round whose result equals its input, with that set or not-found
C5_LookupTerminates ==
  /\ (status = "running") ~> (status = "returned")
  /\ [][(status = "running" /\ status' = "returned" /\ gather.kind = "pending") =>
          (res' = nodes /\ result' = Converged(op, nodes))]_vars
  /\ [][(status = "running" /\ status' = "running" /\ res' # res) => nodes' = res']_vars

\* C6: a get in which no peer returns a value returns not-found
C6_GetWithoutValueReturnsNotFound ==
  (op = "get" /\ status = "running") ~>
     (gather.kind = "bytes" \/ (status = "returned" /\ result = Bytes(NotFound)))

\* C7: once start is over, the routing table holds every bootstrap node whose
\* find_node call succeeded and every node it returned
C7_JoinRecordsAnswers ==
  StartFinished =>
    \A i \in 1..Len(known_nodes.list) :
      startRes[i].kind = "nodes" =>
        /\ known_nodes.list[i] \in routing_table
        /\ Range(startRes[i].nodes) \subseteq routing_table

\* C8: start never raises, whichever bootstrap nodes fail
C8_StartNeverRaises == startState # "raised"

\* C9: start without known nodes does not raise, issues no call and leaves
\* the routing table as it was
C9_EmptyStart ==
  /\ [](known_nodes.list = <<>> =>
          /\ startState # "raised"
          /\ startRes = <<>>
          /\ \A p \in Peers : answer[p].kind = "unknown")
  /\ [][(known_nodes'.list = <<>> /\ startState' # startState) =>
          routing_table' = routing_table]_vars

\* start([]) has returned
C9_Witness ==
  /\ startState = "returned"
  /\ known_nodes.given
  /\ known_nodes.list = <<>>
  /\ routing_table = {}

\* C10: set invokes store on exactly the nodes the routing table reports as
\* nearest to the key
C10_SetStoresNearKey ==
  setState # "none" =>
    /\ setState # "raised"
    /\ setNodes = get_nodes_nearby(routing_table, setKey)

\* C11: a store call of set that fails with a network error is not surfaced:
\* set does not raise
C11_SetHidesStoreFailures ==
  (\E i \in 1..Len(setRes) : setRes[i] = "NetworkError") =>
     setState \in {"called", "returned"}


\* what a lookup on a static network has come to know: its first candidates and
\* the nodes the peers it contacted answered with; and the peers that failed
LookupKnown ==
  Range(get_nodes_nearby(routing_table, target)) \cup
  UNION {Range(answer[p].nodes) : p \in Peers}
LookupFailed == {p \in Peers : answer[p].kind = "NetworkError"}

\* the step in which _query returns the candidate set of a round
RoundEnds ==
  /\ status = "running"
  /\ gather.kind = "pending"
  /\ GatherDone(task)
  /\ ~(UNCHANGED lookupVars)

\* C12: lookup_node returns distinct nodes, all known and not failed, and no
\* known reachable node outside the list is closer to the target than a node
\* inside it
C12_LookupReturnsClosestKnown ==
  (op = "lookup_node" /\ status = "returned") =>
    LET out == result.nodes
        reachable == LookupKnown \ LookupFailed
    IN /\ \A i \in 1..Len(out) : \A j \in 1..Len(out) : i # j => out[i] # out[j]
       /\ Range(out) \subseteq reachable
       /\ \A n \in reachable \ Range(out) : \A m \in Range(out) :
            Distance(m, target) <= Distance(n, target)

\* C15: a peer whose call failed is in no candidate set a round of the same
\* lookup returns from then on
C15_FailedPeerStaysDropped ==
  [][RoundEnds => \A p \in LookupFailed : p \notin Range(res')]_vars

\* every call of the round failed with NetworkError
AllFailed(ts) == \A i \in 1..Len(ts) : ts[i].ans.kind = "NetworkError"

\* C14: a round all of whose calls failed returns the empty candidate set,
\* whatever the size of its input, also with a node twice in the input
C14_AllFailedRoundReturnsEmpty ==
  [][RoundEnds /\ Len(task) > 0 /\ AllFailed(task) => res' = <<>>]_vars
C14_Witness ==
  /\ status = "running"
  /\ Len(task) = 2
  /\ task[1].node = task[2].node
  /\ GatherDone(task)
  /\ AllFailed(task)

\* the input of a round after the removal or the appended answer of each of
\* its first n tasks
RECURSIVE Settled(_, _)
Settled(ts, n) ==
  IF n = 0 THEN <<>>
  ELSE Settled(ts, n - 1) \o
       (IF ts[n].ans.kind = "NetworkError" THEN <<>>
        ELSE <<ts[n].node>> \o ts[n].ans.nodes)

\* C16: the tasks of a round are the nodes of its input and no others, and the
\* round sorts and truncates only when each of them is done: what it returns
\* is made of the removal or the answer of every input node
C16_SortAfterAllSettled ==
  [][/\ status = "running" =>
          /\ Len(task) = Len(nodes)
          /\ \A i \in 1..Len(task) : task[i].node = nodes[i]
     /\ RoundEnds =>
          /\ \A i \in 1..Len(task) :
               task[i].pc = "done" /\ task[i].ans.kind \in {"nodes", "NetworkError"}
          /\ res' = QueryResult(Settled(task, Len(task)), target)]_vars
C16_Witness ==
  /\ status = "running"
  /\ gather.kind = "pending"
  /\ GatherDone(task)
  /\ Len(task) = 2
  /\ task[1].ans.kind = "NetworkError"
  /\ task[2].ans.kind = "nodes"
  /\ Len(cand) > Len(task)

\* a step of get / lookup_node, and the step in which a call of a round settles
LookupStep == ~(UNCHANGED lookupVars)
SettleStep ==
  /\ status = "running"
  /\ \E i \in 1..Len(task) :
       /\ i \in 1..Len(task')
       /\ task[i].pc = "call"
       /\ task'[i].pc \in {"done", "raised"}

C19_PermitsNeverLeaked ==
  op # "none" =>
    /\ sem + Cardinality(InFlight) = asize
    /\ (status = "running" /\ Waiting = 1..Len(task)) => sem = asize
    /\ Waiting # {} => (sem > 0 \/ InFlight # {})
C19_Witness ==
  /\ status = "running"
  /\ rounds >= 2
  /\ Len(task) > 0
  /\ Waiting = 1..Len(task)
  /\ sem = asize
  /\ \E p \in Peers : answer[p].kind = "NetworkError"
  /\ \E p \in Peers : answer[p].kind = "nodes"

\* C20: when get returns something other than the not-found result, a peer it
\* queried answered find_value with that value; and get returns the not-found
\* result only when no peer it queried answered with a value
C20_GetReturnsExistingValues ==
  (op = "get" /\ status = "returned") =>
    /\ result # Bytes(NotFound) =>
         \E i \in Raised : task[i].ans = result /\ result.value \in Values
    /\ result = Bytes(NotFound) => Raised = {}

\* C13: a find_value request for a key that a store request wrote is answered
\* with the value of the last such request (the store holds exactly what was
\* last written), and for any other key with what find_node answers: the
\* routing table's nodes nearest to the key
C13_FindValueStoredElseNearest ==
  [][/\ storage' = written'
     /\ (last' # last /\ last'.rpc = "find_value") =>
          IF written[last'.id] # NoValue
            THEN last'.reply = Bytes(written[last'.id])
            ELSE last'.reply \in {find_node(routing_table, last'.id),
                                  find_node(routing_table', last'.id)}]_vars
C13_Witness ==
  /\ last.rpc = "find_value"
  /\ last.reply.kind = "bytes"
  /\ last.reply.value = written[last.id]
  /\ \E k \in Targets : written[k] = NoValue
  /\ routing_table # {}

\* C17: every node whose inbound RPC was dispatched is in the routing table,
\* and a ping does nothing but that refresh and answering 'pong'
C17_InboundRefreshesTable ==
  [][/\ callers' \subseteq routing_table'
     /\ (last'.rpc = "ping" /\ (last' # last \/ callers' # callers)) =>
          /\ last'.reply = Pong
          /\ \E c \in Peers : routing_table' = update(routing_table, c)
          /\ UNCHANGED <<storage, answer, static, startVars, lookupVars, setVars>>]_vars
C17_Witness ==
  /\ callers = Peers
  /\ last.rpc = "ping"
  /\ \E k \in Targets : storage[k] # NoValue
====
